---- MODULE Spec2Model ----
(***************************************************************************)
(* Tray/menu event routing of the pomotoro desktop shell                   *)
(* (frontend/src-tauri/src/lib.rs).                                        *)
(*                                                                         *)
(* The toolkit's event loop calls one handler at a time, each running to   *)
(* completion: every action below is one whole handler invocation.         *)
(* Results of toolkit calls that the source receives as Option / Result    *)
(* (get_window, hide, show) are inputs of the handlers.                    *)
(***************************************************************************)
EXTENDS Integers, Sequences, FiniteSets, TLC

\* Bound on the number of events the event loop hands to the two handlers.
MaxEvents == 4

\* Exit status of a Rust process that ends by a panic.
PanicExitCode == 101

\* Marker for "the process has not ended".
NoExitCode == -1

\* Menu identifiers delivered by the tray: the three of the menu plus
\* identifiers the menu does not define.
MenuIds == {"show", "hide", "quit", "about", ""}

\* SystemTrayEvent variants other than MenuItemClick.
OtherTrayEvents == {"LeftClick", "RightClick", "DoubleClick"}

\* WindowEvent variants other than CloseRequested.
OtherWindowEvents == {"Resized", "Moved"}

VARIABLES
    status,         \* "Starting" | "Running" | "Terminated" | "Faulted" | "Aborted"
    exitCode,       \* NoExitCode while the process lives, else its exit status
    trayMenu,       \* the menu attached to the tray icon
    windowExists,   \* the toolkit's registry holds a window labelled "main"
    visible,        \* the main window is shown
    focused,        \* the main window holds input focus
    closePrevented, \* the last close request had its default close suppressed
    lookedUp,       \* the last handler invocation called get_window("main")
    last,           \* the last handled event and the state it met (history)
    quitHandled,    \* a quit activation has been handled (history)
    decider,        \* the last show / hide / close request handled since the
                    \* main window was created, "none" if none (history)
    nEvents         \* number of events handled so far

vars == <<status, exitCode, trayMenu, windowExists, visible, focused,
          closePrevented, lookedUp, last, quitHandled, decider, nEvents>>

winVars == <<windowExists, visible, focused>>

NoEvent == [src |-> "none", ev |-> "", id |-> "", found |-> FALSE,
            ok |-> TRUE, preVisible |-> FALSE, preFocused |-> FALSE]

\* History value after a step of the toolkit that is not a handled event.
ToolkitStep == [NoEvent EXCEPT !.src = "toolkit"]

\* run(), lines 40-47: the tray menu, in order.
Item(id, label) == [kind |-> "item", id |-> id, label |-> label]

Separator == [kind |-> "separator", id |-> "", label |-> ""]

\* A menu filled in the order the items are declared (quit, hide, show).
TrayMenuMut == << Item("quit", "Quit"), Item("hide", "Hide"), Separator,
                  Item("show", "Show") >>

TrayMenu == << Item("show", "Show"), Item("hide", "Hide"), Separator,
               Item("quit", "Quit") >>

\* A quit that reports failure: app.exit(1).
QuitExitCodeMut == 0 + 1

\* app.exit(0), line 23.
QuitExitCode == 0

Init ==
    /\ status = "Starting"
    /\ exitCode = NoExitCode
    /\ trayMenu = << >>
    /\ windowExists = FALSE
    /\ visible = FALSE
    /\ focused = FALSE
    /\ closePrevented = FALSE
    /\ lookedUp = FALSE
    /\ last = NoEvent
    /\ quitHandled = FALSE
    /\ decider = "none"
    /\ nEvents = 0

\* A panic (unwrap on None / Err, expect on Err) ends the process.
Panic ==
    /\ status' = "Faulted"
    /\ exitCode' = PanicExitCode

\* A run() that drops the error of the builder instead of expect(): the
\* entry point returns normally and the process ends with status 0.
RunMut ==
    /\ status = "Starting"
    /\ \E setupOk \in BOOLEAN :
         IF setupOk
           THEN /\ status' = "Running"
                /\ exitCode' = NoExitCode
                /\ trayMenu' = TrayMenu
           ELSE /\ status' = "Aborted"
                /\ exitCode' = 0
                /\ trayMenu' = << >>
    /\ UNCHANGED <<winVars, closePrevented, lookedUp, last, quitHandled,
                   decider, nEvents>>

\* run(), lines 39-69: build the menu, attach the tray, register the handlers,
\* run setup; an error of plugin / setup / run reaches expect() and panics.
Run ==
    /\ status = "Starting"
    /\ \E setupOk \in BOOLEAN :
         IF setupOk
           THEN /\ status' = "Running"
                /\ exitCode' = NoExitCode
                /\ trayMenu' = TrayMenu
           ELSE /\ status' = "Aborted"
                /\ exitCode' = PanicExitCode
                /\ trayMenu' = << >>
    /\ UNCHANGED <<winVars, closePrevented, lookedUp, last, quitHandled,
                   decider, nEvents>>

\* The event as the history variable records it, with the state it met;
\* ok is FALSE when the handler made a hide() / show() call that failed.
Event(src, ev, id, found, called, callOk) ==
    [src |-> src, ev |-> ev, id |-> id, found |-> found,
     ok |-> (called => callOk),
     preVisible |-> visible, preFocused |-> focused]

\* window.hide(), lines 11 and 26: the window is no longer shown and so no
\* longer holds input focus.
WindowHide ==
    /\ visible' = FALSE
    /\ focused' = FALSE
    /\ UNCHANGED windowExists

\* window.show(), line 29: the window is shown.  The handler makes no
\* set_focus call: whether a window that was not focused receives focus is
\* the window manager's decision (wmFocus).
WindowShow(wmFocus) ==
    /\ visible' = TRUE
    /\ focused' = (focused \/ wmFocus)
    /\ UNCHANGED windowExists

\* A first arm that matches every window event.
IsCloseRequestedMut(ev) == ev \in {"CloseRequested"} \cup OtherWindowEvents

\* The pattern WindowEvent::CloseRequested { api, .. }, line 9.
IsCloseRequested(ev) == ev = "CloseRequested"

\* A first arm that matches every tray event.
IsMenuItemClickMut(ev) == ev \in {"MenuItemClick"} \cup OtherTrayEvents

\* The pattern SystemTrayEvent::MenuItemClick { id, .. }, line 19.
IsMenuItemClick(ev) == ev = "MenuItemClick"

\* handle_window_event, lines 7-15.  The event comes from the window itself
\* (event.window()), so the window exists.  hideOk is the Result of hide().
handle_window_event(ev, hideOk) ==
    /\ status = "Running"
    /\ windowExists
    /\ nEvents < MaxEvents
    /\ nEvents' = nEvents + 1
    /\ last' = Event("window", ev, "", TRUE, IsCloseRequested(ev), hideOk)
    /\ lookedUp' = FALSE
    /\ decider' = IF IsCloseRequested(ev) THEN "close" ELSE decider
    /\ UNCHANGED <<trayMenu, quitHandled>>
    /\ IF IsCloseRequested(ev)
         THEN /\ closePrevented' = TRUE                 \* api.prevent_close()
              /\ IF hideOk
                   THEN /\ WindowHide                    \* hide() is Ok
                        /\ UNCHANGED <<status, exitCode>>
                   ELSE /\ Panic                         \* unwrap() on Err
                        /\ UNCHANGED winVars
         ELSE /\ closePrevented' = FALSE                \* _ => {}
              /\ UNCHANGED <<status, exitCode, winVars>>

\* handle_system_tray_event, lines 17-36.  callOk is the Result of the
\* hide() / show() call, wmFocus the window manager's focus decision.
handle_system_tray_event(ev, id, callOk, wmFocus) ==
    /\ status = "Running"
    /\ nEvents < MaxEvents
    /\ nEvents' = nEvents + 1
    /\ last' = Event("tray", ev, id, windowExists,
                     IsMenuItemClick(ev) /\ windowExists
                        /\ id \in {"hide", "show"}, callOk)
    /\ decider' = IF IsMenuItemClick(ev) /\ windowExists
                        /\ id \in {"hide", "show"}
                    THEN id ELSE decider
    /\ UNCHANGED <<trayMenu, closePrevented>>
    /\ IF IsMenuItemClick(ev)
         THEN /\ lookedUp' = TRUE                       \* app.get_window("main")
              /\ quitHandled' = (quitHandled \/ id = "quit")
              /\ IF ~windowExists
                   THEN /\ Panic                         \* unwrap() on None
                        /\ UNCHANGED winVars
                   ELSE CASE id = "quit" ->
                               /\ status' = "Terminated" \* app.exit(0)
                               /\ exitCode' = QuitExitCode
                               /\ UNCHANGED winVars
                          [] id = "hide" ->
                               IF callOk
                                 THEN /\ WindowHide
                                      /\ UNCHANGED <<status, exitCode>>
                                 ELSE /\ Panic           \* unwrap() on Err
                                      /\ UNCHANGED winVars
                          [] id = "show" ->
                               IF callOk
                                 THEN /\ WindowShow(wmFocus)
                                      /\ UNCHANGED <<status, exitCode>>
                                 ELSE /\ Panic           \* unwrap() on Err
                                      /\ UNCHANGED winVars
                          [] OTHER ->                    \* _ => {}
                               UNCHANGED <<status, exitCode, winVars>>
         ELSE /\ lookedUp' = FALSE                      \* _ => {}
              /\ UNCHANGED <<status, exitCode, winVars, quitHandled>>

\* The event loop delivers a window event of the main window.
WindowEvent ==
    \E ev \in {"CloseRequested"} \cup OtherWindowEvents, hideOk \in BOOLEAN :
        handle_window_event(ev, hideOk)

\* The event loop delivers a tray event.
SystemTrayEvent ==
    \E ev \in {"MenuItemClick"} \cup OtherTrayEvents, id \in MenuIds,
       callOk \in BOOLEAN, wmFocus \in BOOLEAN :
        handle_system_tray_event(ev, id, callOk, wmFocus)

\* The toolkit registers the window labelled "main"; it is created visible
\* and focused.
CreateWindow ==
    /\ status = "Running"
    /\ ~windowExists
    /\ windowExists' = TRUE
    /\ visible' = TRUE
    /\ focused' = TRUE
    /\ last' = ToolkitStep
    /\ decider' = "none"
    /\ UNCHANGED <<status, exitCode, trayMenu, closePrevented, lookedUp,
                   quitHandled, nEvents>>

\* The toolkit destroys the main window without a close request (a close()
\* call of the front end): get_window("main") is None from then on.
DestroyWindow ==
    /\ status = "Running"
    /\ windowExists
    /\ windowExists' = FALSE
    /\ visible' = FALSE
    /\ focused' = FALSE
    /\ last' = ToolkitStep
    /\ decider' = "none"
    /\ UNCHANGED <<status, exitCode, trayMenu, closePrevented, lookedUp,
                   quitHandled, nEvents>>

Next ==
    \/ Run
    \/ CreateWindow
    \/ DestroyWindow
    \/ WindowEvent
    \/ SystemTrayEvent

Spec == Init /\ [][Next]_vars

TypeOK ==
    /\ status \in {"Starting", "Running", "Terminated", "Faulted", "Aborted"}
    /\ exitCode \in {NoExitCode, QuitExitCode, PanicExitCode}
    /\ trayMenu \in {<< >>, TrayMenu}
    /\ windowExists \in BOOLEAN
    /\ visible \in BOOLEAN
    /\ focused \in BOOLEAN
    /\ closePrevented \in BOOLEAN
    /\ lookedUp \in BOOLEAN
    /\ quitHandled \in BOOLEAN
    /\ decider \in {"none", "show", "hide", "close"}
    /\ nEvents \in 0..MaxEvents

(***************************************************************************)
(* What the history variable says about the step that was just taken.      *)
(***************************************************************************)
MenuClicked(id) ==
    last.src = "tray" /\ last.ev = "MenuItemClick" /\ last.id = id

CloseRequestedHandled == last.src = "window" /\ last.ev = "CloseRequested"

Alive == status = "Running" /\ exitCode = NoExitCode

Started == status \in {"Running", "Terminated", "Faulted"}

\* C1: a show or hide activation handled while get_window("main") finds no
\* window completes without fault, the process stays alive and visibility
\* and liveness are unchanged.
C1_AbsentWindowIsNoOp ==
    \A id \in {"show", "hide"} :
        (MenuClicked(id) /\ ~last.found) =>
            /\ Alive
            /\ visible = last.preVisible
            /\ ~windowExists

\* C2: a close request received while the window is Visible has its default
\* close suppressed, leaves the main window Hidden and the process alive.
C2_CloseHidesAndStaysAlive ==
    (CloseRequestedHandled /\ last.preVisible) =>
        /\ closePrevented
        /\ windowExists
        /\ ~visible
        /\ Alive

\* C3: a quit activation handled with the main window Visible or Hidden ends
\* the process in Terminated with exit status 0, and no step is taken from
\* Terminated (no later event changes any state).
C3_QuitTerminates ==
    /\ [](( MenuClicked("quit") /\ last.found ) =>
            ( status = "Terminated" /\ exitCode = 0 ))
    /\ [][status = "Terminated" => vars' = vars]_vars

C3_Witness ==
    /\ MenuClicked("quit")
    /\ last.found
    /\ ~last.preVisible
    /\ status = "Terminated"

\* C4: quit has no error outcome: a handled quit activation ends the process
\* with status 0, whether or not the main window can be resolved.
C4_QuitAlwaysSucceeds ==
    MenuClicked("quit") => ( status = "Terminated" /\ exitCode = 0 )

\* C5: a menu activation whose identifier is none of show, hide, quit changes
\* neither visibility nor liveness and raises no fault, in every state.
C5_UnknownIdIsNoOp ==
    \A id \in MenuIds \ {"show", "hide", "quit"} :
        MenuClicked(id) =>
            /\ Alive
            /\ visible = last.preVisible
            /\ focused = last.preFocused

\* C6: with the main window present, a handled show leaves it Visible, from
\* Hidden and (idempotence) from Visible.
C6_ShowMakesVisible ==
    ( MenuClicked("show") /\ last.found ) => visible

\* C7: with the main window present, a handled hide leaves it Hidden, from
\* Visible and (idempotence) from Hidden, and does not end the process.
C7_HideMakesHidden ==
    ( MenuClicked("hide") /\ last.found ) => ( ~visible /\ Alive )

\* C8: after a show handled with the main window present has returned, the
\* main window holds input focus.
C8_ShowGivesFocus ==
    ( MenuClicked("show") /\ last.found /\ Alive ) => focused

\* C9: the process stops running only through quit: a started process that
\* is no longer running has handled a quit activation.
C9_OnlyQuitStops ==
    ( Started /\ status # "Running" ) => quitHandled

\* C10: as long as no quit was handled the process is alive, and a handled
\* show brings the main window back to Visible.
C10_TrayStaysOperable ==
    ( Started /\ ~quitHandled ) =>
        /\ Alive
        /\ MenuClicked("show") => visible

\* C11: once startup has succeeded the menu attached to the tray is exactly
\* item show "Show", item hide "Hide", one separator, item quit "Quit", in
\* this order; it is attached by startup alone (once) and no handled event
\* changes it afterwards.
C11_TrayMenuFixed ==
    /\ [](Started =>
            trayMenu = << [kind |-> "item", id |-> "show", label |-> "Show"],
                          [kind |-> "item", id |-> "hide", label |-> "Hide"],
                          [kind |-> "separator", id |-> "", label |-> ""],
                          [kind |-> "item", id |-> "quit", label |-> "Quit"] >>)
    /\ [][trayMenu' # trayMenu => (status = "Starting" /\ trayMenu = << >>)]_vars

C11_Witness ==
    /\ Started
    /\ nEvents = MaxEvents
    /\ Len(trayMenu) = 4
    /\ trayMenu[3].kind = "separator"

\* C12: a failure during startup is fatal: the process ends at once with a
\* non-success status, no tray menu is left attached, no tray or window
\* event is ever routed in that run, and nothing happens afterwards.
C12_SetupFailureIsFatal ==
    /\ [](status = "Aborted" =>
            /\ exitCode # NoExitCode
            /\ exitCode # 0
            /\ trayMenu = << >>
            /\ nEvents = 0
            /\ last = NoEvent
            /\ ~lookedUp /\ ~closePrevented /\ ~windowExists)
    /\ [][status = "Aborted" => vars' = vars]_vars

C12_Witness == status = "Aborted" /\ exitCode = PanicExitCode

\* C13: a window event other than close-requested is a no-op of the router:
\* visibility, focus and liveness are as before, the window is still there,
\* and the default behaviour of the toolkit is not suppressed.
C13_OtherWindowEventIsNoOp ==
    \A ev \in OtherWindowEvents :
        ( last.src = "window" /\ last.ev = ev ) =>
            /\ Alive
            /\ windowExists
            /\ visible = last.preVisible
            /\ focused = last.preFocused
            /\ ~closePrevented

C13_Witness ==
    /\ last.src = "window"
    /\ last.ev = "Resized"
    /\ last.preVisible
    /\ visible
    /\ Alive

\* C14: every handling of show, hide or close-requested on the main window
\* completes or is a no-op and never leaves the process in a fault state,
\* also when the hide() / show() call of the toolkit reports an error.
C14_NoHandlerFaults ==
    ( last.found /\ ( MenuClicked("show") \/ MenuClicked("hide")
                        \/ CloseRequestedHandled ) ) =>
        status # "Faulted"

\* C15: with the main window present and no quit handled, visibility is
\* decided by the last show, hide or close request alone: Hidden after hide
\* or close-requested, Visible after show, Visible if there was none.
C15_LastEventDecidesVisibility ==
    ( Started /\ windowExists /\ ~quitHandled ) =>
        ( visible <=> decider \in {"none", "show"} )

\* C16: a tray event that is not a menu activation (a click on the icon)
\* changes nothing: visibility, focus and liveness are as before, the main
\* window is not looked up, and there is no fault even without a main window.
C16_IconClickIsNoOp ==
    \A ev \in OtherTrayEvents :
        ( last.src = "tray" /\ last.ev = ev ) =>
            /\ Alive
            /\ ~lookedUp
            /\ windowExists = last.found
            /\ visible = last.preVisible
            /\ focused = last.preFocused

C16_Witness ==
    /\ last.src = "tray"
    /\ last.ev = "LeftClick"
    /\ ~last.found
    /\ ~windowExists
    /\ Alive

====
